---- MODULE Spec2Model ----
(***************************************************************************)
(* Mora + DeerFlow: the text chunker (scripts/chunk_and_embed.py,          *)
(* chunk_text), the embedding indexer (create_embeddings_batch, save_index,*)
(* main, process_file, read_content_files), the topic filter pipeline     *)
(* (scripts/vector_temas_manager.py) and the type assignment of            *)
(* scripts/enhanced_chunking.py.                                           *)
(*                                                                         *)
(* Text is a sequence of one-character strings.  Each subsystem has its    *)
(* own specification over its own variables; the variables of the other    *)
(* subsystems stay at their initial value.                                 *)
(***************************************************************************)
EXTENDS Integers, Sequences, FiniteSets, TLC

VARIABLES
    \* chunker (chunk_text as called by process_file)
    text, min_length, max_length, valid_chunks, cpc,
    \* indexing run (main, create_embeddings_batch, save_index)
    corpus,         \* the files of the content directory, in discovery order
    dirExists,      \* whether the content directory exists
    batch_size,     \* --batch-size
    entry,          \* "main": a run of main(); "batch": a direct call of create_embeddings_batch
    ipc,            \* position of the run
    chunks,         \* the chunk records read_content_files returned
    texts,          \* create_embeddings_batch: texts
    all_embeddings, \* create_embeddings_batch: all_embeddings
    bi,             \* create_embeddings_batch: the loop variable i
    embeddings,     \* the embeddings_list returned
    encodeCalls,    \* history: the batches handed to model.encode, in call order
    encodeReturns,  \* history: what model.encode returned, call by call
    failedBatch,    \* history: the number of the call on which model.encode raised, or 0
    saveInvoked,    \* history: whether save_index was entered
    diskBefore,     \* the output path before the run
    disk,           \* the output path now
    \* topic filter pipeline (VectorTemasManager)
    self_chunks,    \* self.chunks: the chunk records the manager holds
    loaded,         \* the chunk records as load_chunks read them
    fpc,            \* single caller: "idle" or "returned"
    call,           \* single caller: the arguments of the call that returned
    result,         \* single caller: what the call returned
    \* two callers of get_filtered_chunks on one manager
    tpc,            \* each caller's position
    targs,          \* each caller's arguments
    tlist,          \* each caller's local chunks
    tfiltered,      \* each caller's filtered_chunks (filter_by_vector_temas)
    tidx,           \* each caller's position in the loop over self.chunks
    tresult,        \* what each caller got back, as it reads it on return
    \* type assignment (EnhancedChunker.assign_type)
    words,          \* the text, as the sequence of its maximal runs of word characters
    chunk_type,     \* what assign_type returned
    apc,            \* position of the call
    \* process_file on one file (its content is text, its limits min_length, max_length)
    file_path,      \* the path: stem, suffix and whether the file can be read
    pdf_available,  \* PDF_AVAILABLE
    outcome,        \* the tuple process_file returned
    ppc,            \* position of the call
    \* read_content_files, file by file
    txt_files,      \* what glob("*.txt") lists
    pdf_files,      \* what glob("*.pdf") lists
    all_files,      \* all_files
    parallel,       \* the parallel argument
    cpu_count,      \* mp.cpu_count()
    num_processes,  \* the size of the pool, 0 while there is none
    next_file,      \* the next file the loop, or the pool, takes up
    running,        \* pool: the files a worker is processing
    finished,       \* pool: the files processed, in the order the workers finished
    results,        \* history: what process_file came to for each file processed
    all_chunks,     \* all_chunks
    rpc             \* position of the call

chunkVars == <<text, min_length, max_length, valid_chunks, cpc>>

indexVars == <<corpus, dirExists, batch_size, entry, ipc, chunks, texts,
               all_embeddings, bi, embeddings, encodeCalls, encodeReturns,
               failedBatch, saveInvoked, diskBefore, disk>>

filterVars == <<self_chunks, loaded, fpc, call, result>>

callerVars == <<tpc, targs, tlist, tfiltered, tidx, tresult>>

typeVars == <<words, chunk_type, apc>>

fileVars == <<file_path, pdf_available, outcome, ppc>>

readVars == <<txt_files, pdf_files, all_files, parallel, cpu_count,
              num_processes, next_file, running, finished, results,
              all_chunks, rpc>>

extraVars == <<typeVars, fileVars, readVars>>

vars == <<chunkVars, indexVars, filterVars, callerVars, extraVars>>

notIndexVars == <<chunkVars, filterVars, callerVars, extraVars>>

----------------------------------------------------------------------------
(* Bounds of the model *)

\* longest raw text given to chunk_text
MaxTextLen == 5
\* largest max_length argument
MaxMaxLength == 5
\* most files in the content directory
MaxFiles == 2
\* most chunks one file yields
MaxPerFile == 2
\* largest --batch-size
MaxBatch == 2
\* most chunk records the manager loads
MaxChunks == 2
\* largest max_chunks argument
MaxResults == 2
\* most words in a text given to assign_type
MaxWords == 6
\* largest mp.cpu_count()
MaxCpu == 2
\* most chunk records loaded when suggestions are asked for
MaxSuggestChunks == 6

----------------------------------------------------------------------------
(* Characters: a letter, the two kinds of whitespace and a sentence end *)

NL == "\n"
Alphabet == {"a", " ", NL, "."}

\* Python str.isspace / regex \s on the alphabet
IsSpace(c) == c \in {" ", NL}

\* the character class [.!?] of the sentence split
IsPunct(c) == c \in {".", "!", "?"}

RECURSIVE LStrip(_)
LStrip(s) ==
    IF s # <<>> /\ IsSpace(Head(s)) THEN LStrip(Tail(s)) ELSE s

RECURSIVE RStrip(_)
RStrip(s) ==
    IF s # <<>> /\ IsSpace(s[Len(s)]) THEN RStrip(SubSeq(s, 1, Len(s) - 1)) ELSE s

\* str.strip()
Strip(s) == LStrip(RStrip(s))

\* last index of the whitespace run that starts at i (s[i] is whitespace)
RECURSIVE RunEnd(_, _)
RunEnd(s, i) ==
    IF i < Len(s) /\ IsSpace(s[i + 1]) THEN RunEnd(s, i + 1) ELSE i

\* re.split(r'\n\s*\n', s) from position i on, cur being the piece under way:
\* a match starts at a newline and, \s* being greedy, ends at the last newline
\* of the whitespace run it starts in
RECURSIVE SplitParaFrom(_, _, _)
SplitParaFrom(s, i, cur) ==
    IF i > Len(s) THEN <<cur>>
    ELSE IF s[i] = NL
         THEN LET e == RunEnd(s, i)
                  nls == {q \in (i + 1)..e : s[q] = NL}
              IN  IF nls # {}
                  THEN LET q == CHOOSE x \in nls : \A y \in nls : y <= x
                       IN  <<cur>> \o SplitParaFrom(s, q + 1, <<>>)
                  ELSE SplitParaFrom(s, i + 1, Append(cur, s[i]))
         ELSE SplitParaFrom(s, i + 1, Append(cur, s[i]))

SplitParagraphs(s) == SplitParaFrom(s, 1, <<>>)

\* re.sub(r'\s+', ' ', s)
RECURSIVE CollapseWhitespace(_)
CollapseWhitespace(s) ==
    IF s = <<>> THEN <<>>
    ELSE IF IsSpace(Head(s))
         THEN <<" ">> \o CollapseWhitespace(LStrip(s))
         ELSE <<Head(s)>> \o CollapseWhitespace(Tail(s))

\* drop the leading run of sentence punctuation
RECURSIVE SkipPunct(_)
SkipPunct(s) == IF s # <<>> /\ IsPunct(Head(s)) THEN SkipPunct(Tail(s)) ELSE s

\* re.split(r'[.!?]+', s): the pieces between the punctuation runs, the empty
\* pieces at either end included
RECURSIVE SplitSentFrom(_, _)
SplitSentFrom(s, cur) ==
    IF s = <<>> THEN <<cur>>
    ELSE IF IsPunct(Head(s))
         THEN <<cur>> \o SplitSentFrom(SkipPunct(s), <<>>)
         ELSE SplitSentFrom(Tail(s), Append(cur, Head(s)))

SplitSentences(s) == SplitSentFrom(s, <<>>)

\* the loop over the sentences of an overlong paragraph (lines 86-101):
\* returns the chunks the paragraph contributes
RECURSIVE Accumulate(_, _, _, _)
Accumulate(sentences, current_chunk, minL, maxL) ==
    IF sentences = <<>>
    THEN IF current_chunk # <<>> /\ Len(current_chunk) >= minL
         THEN <<Strip(current_chunk)>> ELSE <<>>
    ELSE LET sentence == Strip(Head(sentences))
             rest == Tail(sentences)
         IN  IF sentence = <<>> THEN Accumulate(rest, current_chunk, minL, maxL)
             ELSE IF Len(current_chunk) + Len(sentence) > maxL /\ current_chunk # <<>>
                  THEN (IF Len(current_chunk) >= minL
                        THEN <<Strip(current_chunk)>> ELSE <<>>)
                       \o Accumulate(rest, sentence, minL, maxL)
                  ELSE Accumulate(rest,
                                  IF current_chunk # <<>>
                                  THEN current_chunk \o <<" ">> \o sentence
                                  ELSE sentence,
                                  minL, maxL)

\* a loop body that emits the trimmed paragraph as read, whitespace runs kept
ParagraphChunksUncollapsed(raw, minL, maxL) ==
    LET stripped == Strip(raw) IN
    IF Len(stripped) < minL THEN <<>>
    ELSE IF Len(CollapseWhitespace(stripped)) > maxL
         THEN Accumulate(SplitSentences(CollapseWhitespace(stripped)), <<>>,
                         minL, maxL)
         ELSE <<stripped>>

\* the body of the loop over the paragraphs (lines 71-103)
ParagraphChunks(raw, minL, maxL) ==
    LET stripped == Strip(raw) IN
    IF Len(stripped) < minL THEN <<>>
    ELSE LET paragraph == CollapseWhitespace(stripped)
         IN  IF Len(paragraph) > maxL
             THEN Accumulate(SplitSentences(paragraph), <<>>, minL, maxL)
             ELSE <<paragraph>>

RECURSIVE ChunkParagraphs(_, _, _)
ChunkParagraphs(paragraphs, minL, maxL) ==
    IF paragraphs = <<>> THEN <<>>
    ELSE ParagraphChunks(Head(paragraphs), minL, maxL)
         \o ChunkParagraphs(Tail(paragraphs), minL, maxL)

\* chunk_text(text, min_length, max_length)
chunk_text(t, minL, maxL) ==
    IF t = <<>> \/ Len(Strip(t)) < minL THEN <<>>
    ELSE ChunkParagraphs(SplitParagraphs(Strip(t)), minL, maxL)

----------------------------------------------------------------------------
(* The indexing run: read_content_files, create_embeddings_batch, save_index *)

Min(a, b) == IF a < b THEN a ELSE b

\* the file at position f of the discovery order: its name and stem
FileName(f) == <<"file", f>>
FileStem(f) == <<"stem", f>>

\* process_file on file number f (lines 155-210): a file that cannot be read
\* or decoded yields no chunks (lines 208-210), any other the records built
\* at lines 194-204 from the n chunks chunk_text returned
process_file(f, file) ==
    IF ~file.ok THEN <<>>
    ELSE [i \in 1..file.n |->
            [text |-> <<"text", f, i - 1>>,
             source |-> FileName(f),
             chunk_id |-> <<FileStem(f), i - 1>>,
             chunk_index |-> i - 1]]

\* the loop of read_content_files (lines 288-291; pool.map at 276-282 keeps
\* the order of its inputs): the files' chunk records, concatenated
RECURSIVE ReadFrom(_, _)
ReadFrom(files, f) ==
    IF f > Len(files) THEN <<>>
    ELSE process_file(f, files[f]) \o ReadFrom(files, f + 1)

\* read_content_files: a missing directory is created and yields nothing
read_content_files(files, exists) ==
    IF ~exists THEN <<>> ELSE ReadFrom(files, 1)

\* the embedding provider, model.encode: one vector per text, in order
Encode(batch) == [j \in 1..Len(batch) |-> [ndarray |-> batch[j]]]

\* embedding.tolist(): the numpy vector as a list of floats
ToList(embedding) == [list |-> embedding.ndarray]

\* a batch that overlaps the next one
BatchOfOverlapping(ts, i, b) == SubSeq(ts, i + 1, Min(i + b + 1, Len(ts)))

\* texts[i:i + batch_size] (line 311), i counting from 0
BatchOf(ts, i, b) == SubSeq(ts, i + 1, Min(i + b, Len(ts)))

\* a handler that swallows the provider's exception and goes on with the loop
ProviderErrorSwallowed == "loop"

\* where a raising model.encode leaves the run: nothing in
\* create_embeddings_batch catches it, main logs it and raises it again
\* (lines 437-439)
ProviderErrorPc == "failed"

\* the loop at lines 338-343: chunk counts by source
RECURSIVE CountSources(_)
CountSources(meta) ==
    IF meta = <<>> THEN << >>
    ELSE LET rest == CountSources(SubSeq(meta, 1, Len(meta) - 1))
             source == meta[Len(meta)].source
         IN  IF source \in DOMAIN rest
             THEN [rest EXCEPT ![source] = @ + 1]
             ELSE [x \in DOMAIN rest \cup {source} |->
                      IF x = source THEN 1 ELSE rest[x]]

\* an index that counts the sources instead of their chunks
IndexDataSourcesOnce(ts, embs, chunks_metadata) ==
    [texts |-> ts,
     embeddings |-> embs,
     total_chunks |-> Len(ts),
     total_sources |-> Cardinality(DOMAIN CountSources(chunks_metadata)),
     sources |-> [x \in DOMAIN CountSources(chunks_metadata) |-> 1],
     chunks_metadata |-> chunks_metadata]

\* index_data (lines 345-363), without the timestamp and the length statistics
IndexData(ts, embs, chunks_metadata) ==
    [texts |-> ts,
     embeddings |-> embs,
     total_chunks |-> Len(ts),
     total_sources |-> Cardinality(DOMAIN CountSources(chunks_metadata)),
     sources |-> CountSources(chunks_metadata),
     chunks_metadata |-> chunks_metadata]

\* the output path: no file, a complete snapshot, or what open(path, 'w') and
\* an unfinished json.dump leave
NoFile == [state |-> "absent"]
Truncated == [state |-> "empty"]
Partial(data) == [state |-> "partial", of |-> data]
Complete(data) == [state |-> "complete", data |-> data]

\* the snapshot an earlier run left at the output path
PriorSnapshot ==
    LET meta == <<[text |-> <<"text", 0, 0>>, source |-> FileName(0),
                   chunk_id |-> <<FileStem(0), 0>>, chunk_index |-> 0]>>
        ts == <<meta[1].text>>
    IN  IndexData(ts, <<ToList(Encode(ts)[1])>>, meta)

----------------------------------------------------------------------------
(* The topic filter pipeline: VectorTemasManager *)

\* the similarity threshold, in tenths (threshold: float = 0.3)
Threshold == 3

\* a metadata key the record does not have; reading it raises KeyError
Missing == "missing"

\* what a filter hands back: the list, or the KeyError it raised
Returned(refs) == [raised |-> FALSE, refs |-> refs]
KeyError == [raised |-> TRUE, refs |-> <<>>]

\* similarity_score is <<v>> when the record has the key and <<>> when not
NoScore == <<>>
Score(v) == <<v>>

\* eje_activo = None
NoEje == "None"

Ejes == {"U1", "U2"}
Modes == {"theory", "practice"}
ChunkTexts == {"t1", "t2"}
TopicSets == {<<>>, <<"Funcion">>, <<"Vector">>}

\* lines 27-28 and 33-34: cosine_similarity of the embedding of the joined
\* topics and the embedding of a chunk's text, in tenths; the embedding model
\* is deterministic, here a table
cosine_similarity(vector_temas, chunk_text_) ==
    CASE vector_temas = <<"Funcion">> /\ chunk_text_ = "t1" -> 5
      [] vector_temas = <<"Funcion">> /\ chunk_text_ = "t2" -> 4
      [] vector_temas = <<"Vector">> /\ chunk_text_ = "t1" -> 3
      [] vector_temas = <<"Vector">> /\ chunk_text_ = "t2" -> 5
      [] OTHER -> 0

\* the chunk records load_chunks can read: no similarity_score yet
LoadableChunk ==
    [text : ChunkTexts, eje : Ejes \cup {Missing}, type : Modes \cup {Missing},
     similarity_score : {NoScore}]

\* the positions of self.chunks, in order: a list of references to the records
AllRefs(st) == [k \in 1..Len(st) |-> k]

\* [r for r in refs if keep(r)], in order
RECURSIVE SelectRefs(_, _)
SelectRefs(refs, keep) ==
    IF refs = <<>> THEN <<>>
    ELSE (IF Head(refs) \in keep THEN <<Head(refs)>> ELSE <<>>)
         \o SelectRefs(Tail(refs), keep)

\* filter_by_eje (lines 44-49): KeyError when a record of the list has no eje
filter_by_eje(st, refs, eje_activo) ==
    IF eje_activo = NoEje THEN Returned(refs)
    ELSE IF \E k \in 1..Len(refs) : st[refs[k]].eje = Missing THEN KeyError
         ELSE Returned(SelectRefs(refs, {r \in 1..Len(st) : st[r].eje = eje_activo}))

\* a mode filter that keeps everything
filter_by_mode_all(st, refs, mode) == Returned(refs)

\* a mode filter that compares every type with 'theory', whatever mode is asked
filter_by_mode_theory(st, refs, mode) ==
    IF \E k \in 1..Len(refs) : st[refs[k]].type = Missing THEN KeyError
    ELSE Returned(SelectRefs(refs, {r \in 1..Len(st) : st[r].type = "theory"}))

\* filter_by_mode (lines 51-53): KeyError when a record of the list has no type
filter_by_mode(st, refs, mode) ==
    IF \E k \in 1..Len(refs) : st[refs[k]].type = Missing THEN KeyError
    ELSE Returned(SelectRefs(refs, {r \in 1..Len(st) : st[r].type = mode}))

\* list.sort(key=similarity_score, reverse=True): descending and stable, the
\* keys read from the records as they are when the sort runs
RECURSIVE InsertByScore(_, _, _)
InsertByScore(st, sorted, r) ==
    IF sorted = <<>> THEN <<r>>
    ELSE IF st[Head(sorted)].similarity_score[1] >= st[r].similarity_score[1]
         THEN <<Head(sorted)>> \o InsertByScore(st, Tail(sorted), r)
         ELSE <<r>> \o sorted

\* a sort that leaves the list as it was
SortByScoreSkipped(st, refs) == refs

RECURSIVE SortByScore(_, _)
SortByScore(st, refs) ==
    IF refs = <<>> THEN <<>>
    ELSE InsertByScore(st, SortByScore(st, SubSeq(refs, 1, Len(refs) - 1)),
                       refs[Len(refs)])

\* one turn of the loop at lines 32-38 on record k: the score is written into
\* the record self.chunks holds
ScoreChunk(st, vector_temas, k) ==
    IF cosine_similarity(vector_temas, st[k].text) > Threshold
    THEN [st EXCEPT ![k].similarity_score =
                        Score(cosine_similarity(vector_temas, st[k].text))]
    ELSE st

RECURSIVE ScoreFrom(_, _, _)
ScoreFrom(st, vector_temas, k) ==
    IF k > Len(st) THEN st
    ELSE ScoreFrom(ScoreChunk(st, vector_temas, k), vector_temas, k + 1)

\* filter_by_vector_temas (lines 21-42), run alone: the records after the
\* loop and the list returned.  It reads self.chunks, not a list handed in.
filter_by_vector_temas(st, vector_temas) ==
    IF vector_temas = <<>> \/ st = <<>>
    THEN [chunks |-> st, refs |-> AllRefs(st)]
    ELSE LET scored == ScoreFrom(st, vector_temas, 1)
             kept == {k \in 1..Len(st) :
                        cosine_similarity(vector_temas, st[k].text) > Threshold}
         IN  [chunks |-> scored,
              refs |-> SortByScore(scored, SelectRefs(AllRefs(st), kept))]

\* chunks[:max_chunks] (line 77)
PrefixSlice(refs, m) ==
    IF m >= 0 THEN SubSeq(refs, 1, Min(m, Len(refs)))
    ELSE SubSeq(refs, 1, Len(refs) + m)

\* get_filtered_chunks (lines 55-77), run alone: the records afterwards and
\* the list returned, or KeyError
get_filtered_chunks(st, vector_temas, eje_activo, mode, max_chunks) ==
    LET byEje == filter_by_eje(st, AllRefs(st), eje_activo)
        byTemas == IF vector_temas # <<>>
                   THEN filter_by_vector_temas(st, vector_temas)
                   ELSE [chunks |-> st, refs |-> byEje.refs]
        byMode == filter_by_mode(byTemas.chunks, byTemas.refs, mode)
    IN  IF byEje.raised THEN [chunks |-> st, result |-> KeyError]
        ELSE IF byMode.raised THEN [chunks |-> byTemas.chunks, result |-> KeyError]
        ELSE [chunks |-> byTemas.chunks,
              result |-> Returned(PrefixSlice(byMode.refs, max_chunks))]

NoCall == [vector_temas |-> <<>>, eje_activo |-> NoEje, mode |-> "theory",
           max_chunks |-> 0]

Callers == {1, 2}

----------------------------------------------------------------------------
(* What each subsystem's variables are while another subsystem runs *)

FilterIdle ==
    /\ self_chunks = <<>> /\ loaded = <<>> /\ fpc = "off"
    /\ call = NoCall /\ result = Returned(<<>>)

CallersIdle ==
    /\ tpc = [p \in Callers |-> "off"]
    /\ targs = [p \in Callers |-> NoCall]
    /\ tlist = [p \in Callers |-> <<>>]
    /\ tfiltered = [p \in Callers |-> <<>>]
    /\ tidx = [p \in Callers |-> 0]
    /\ tresult = [p \in Callers |-> [raised |-> FALSE, refs |-> <<>>, scores |-> <<>>]]

Files == [ok : BOOLEAN, n : 0..MaxPerFile]
Corpora == UNION {[1..k -> Files] : k \in 0..MaxFiles}

IndexIdle ==
    /\ corpus = <<>> /\ dirExists = TRUE /\ batch_size = 1 /\ entry = "none"
    /\ ipc = "idle" /\ chunks = <<>> /\ texts = <<>> /\ all_embeddings = <<>>
    /\ bi = 0 /\ embeddings = <<>> /\ encodeCalls = <<>> /\ encodeReturns = <<>>
    /\ failedBatch = 0 /\ saveInvoked = FALSE
    /\ diskBefore = NoFile /\ disk = NoFile

ChunkIdle ==
    /\ text = <<>> /\ min_length = 1 /\ max_length = 2
    /\ valid_chunks = <<>> /\ cpc = "idle"

TypeIdle ==
    /\ words = <<>> /\ chunk_type = "none" /\ apc = "idle"

NoOutcome == [filename |-> <<>>, chunk_objects |-> <<>>, processing_time |-> 0]

FileIdle ==
    /\ file_path = [stem |-> <<>>, suffix |-> <<>>, state |-> "missing"]
    /\ pdf_available = TRUE /\ outcome = NoOutcome /\ ppc = "idle"

ReadIdle ==
    /\ txt_files = <<>> /\ pdf_files = <<>> /\ all_files = <<>>
    /\ parallel = FALSE /\ cpu_count = 1 /\ num_processes = 0 /\ next_file = 1
    /\ running = {} /\ finished = <<>> /\ results = <<>>
    /\ all_chunks = <<>> /\ rpc = "idle"

ExtraIdle == TypeIdle /\ FileIdle /\ ReadIdle

IndexInit ==
    /\ ChunkIdle /\ FilterIdle /\ CallersIdle /\ ExtraIdle
    /\ corpus \in Corpora
    /\ dirExists \in BOOLEAN
    /\ batch_size \in 1..MaxBatch
    /\ entry \in {"main", "batch"}
    /\ ipc = "start"
    /\ chunks = <<>> /\ texts = <<>> /\ all_embeddings = <<>> /\ bi = 0
    /\ embeddings = <<>> /\ encodeCalls = <<>> /\ encodeReturns = <<>>
    /\ failedBatch = 0 /\ saveInvoked = FALSE
    /\ diskBefore \in {NoFile, Complete(PriorSnapshot)}
    /\ disk = diskBefore

\* main, lines 408-417: read and chunk the content; nothing to do without chunks
MainRead ==
    /\ ipc = "start" /\ entry = "main"
    /\ chunks' = read_content_files(corpus, dirExists)
    /\ ipc' = IF chunks' = <<>> THEN "done" ELSE "embed"
    /\ UNCHANGED notIndexVars
    /\ UNCHANGED <<corpus, dirExists, batch_size, entry, texts, all_embeddings, bi,
                   embeddings, encodeCalls, encodeReturns, failedBatch,
                   saveInvoked, diskBefore, disk>>

\* a caller other than main (the tests) hands chunk records to
\* create_embeddings_batch directly
DirectCall ==
    /\ ipc = "start" /\ entry = "batch"
    /\ chunks' = ReadFrom(corpus, 1)
    /\ ipc' = "embed"
    /\ UNCHANGED notIndexVars
    /\ UNCHANGED <<corpus, dirExists, batch_size, entry, texts, all_embeddings, bi,
                   embeddings, encodeCalls, encodeReturns, failedBatch,
                   saveInvoked, diskBefore, disk>>

\* create_embeddings_batch, lines 300-308
BatchBegin ==
    /\ ipc = "embed"
    /\ IF chunks = <<>>
       THEN /\ texts' = <<>> /\ embeddings' = <<>>
            /\ ipc' = IF entry = "main" THEN "save" ELSE "returned"
       ELSE /\ texts' = [k \in 1..Len(chunks) |-> chunks[k].text]
            /\ embeddings' = embeddings
            /\ ipc' = "loop"
    /\ all_embeddings' = <<>> /\ bi' = 0
    /\ UNCHANGED notIndexVars
    /\ UNCHANGED <<corpus, dirExists, batch_size, entry, chunks, encodeCalls,
                   encodeReturns, failedBatch, saveInvoked, diskBefore, disk>>

\* one turn of the loop at lines 310-322, model.encode returning
EncodeBatch ==
    /\ ipc = "loop" /\ bi < Len(texts)
    /\ LET batch_texts == BatchOf(texts, bi, batch_size)
           batch_embeddings == Encode(batch_texts)
       IN  /\ encodeCalls' = Append(encodeCalls, batch_texts)
           /\ encodeReturns' = Append(encodeReturns, batch_embeddings)
           /\ all_embeddings' = all_embeddings \o batch_embeddings
    /\ bi' = bi + batch_size
    /\ UNCHANGED notIndexVars
    /\ UNCHANGED <<corpus, dirExists, batch_size, entry, ipc, chunks, texts,
                   embeddings, failedBatch, saveInvoked, diskBefore, disk>>

\* one turn of the loop, model.encode raising
EncodeFails ==
    /\ ipc = "loop" /\ bi < Len(texts)
    /\ failedBatch = 0
    /\ encodeCalls' = Append(encodeCalls, BatchOf(texts, bi, batch_size))
    /\ failedBatch' = Len(encodeCalls) + 1
    /\ ipc' = ProviderErrorPc
    /\ UNCHANGED notIndexVars
    /\ UNCHANGED <<corpus, dirExists, batch_size, entry, chunks, texts,
                   all_embeddings, bi, embeddings, encodeReturns, saveInvoked,
                   diskBefore, disk>>

\* the loop is over: lines 324-327
BatchReturn ==
    /\ ipc = "loop" /\ bi >= Len(texts)
    /\ embeddings' = [k \in 1..Len(all_embeddings) |-> ToList(all_embeddings[k])]
    /\ ipc' = IF entry = "main" THEN "save" ELSE "returned"
    /\ UNCHANGED notIndexVars
    /\ UNCHANGED <<corpus, dirExists, batch_size, entry, chunks, texts,
                   all_embeddings, bi, encodeCalls, encodeReturns, failedBatch,
                   saveInvoked, diskBefore, disk>>

\* save_index up to open(output_path, 'w') (lines 331-365): the file is
\* created or cut to length 0
SaveOpen ==
    /\ ipc = "save"
    /\ saveInvoked' = TRUE
    /\ disk' = Truncated
    /\ ipc' = "dump"
    /\ UNCHANGED notIndexVars
    /\ UNCHANGED <<corpus, dirExists, batch_size, entry, chunks, texts,
                   all_embeddings, bi, embeddings, encodeCalls, encodeReturns,
                   failedBatch, diskBefore>>

\* save_index, the output path cannot be opened for writing: the error
\* leaves through main
SaveOpenFails ==
    /\ ipc = "save"
    /\ saveInvoked' = TRUE
    /\ ipc' = "failed"
    /\ UNCHANGED notIndexVars
    /\ UNCHANGED <<corpus, dirExists, batch_size, entry, chunks, texts,
                   all_embeddings, bi, embeddings, encodeCalls, encodeReturns,
                   failedBatch, diskBefore, disk>>

\* json.dump (line 366) writes the document piece by piece
SaveDumpPart ==
    /\ ipc = "dump" /\ disk = Truncated
    /\ disk' = Partial(IndexData(texts, embeddings, chunks))
    /\ UNCHANGED notIndexVars
    /\ UNCHANGED <<corpus, dirExists, batch_size, entry, ipc, chunks, texts,
                   all_embeddings, bi, embeddings, encodeCalls, encodeReturns,
                   failedBatch, saveInvoked, diskBefore>>

\* json.dump is through and the file is closed
SaveDumpEnd ==
    /\ ipc = "dump"
    /\ disk' = Complete(IndexData(texts, embeddings, chunks))
    /\ ipc' = "done"
    /\ UNCHANGED notIndexVars
    /\ UNCHANGED <<corpus, dirExists, batch_size, entry, chunks, texts,
                   all_embeddings, bi, embeddings, encodeCalls, encodeReturns,
                   failedBatch, saveInvoked, diskBefore>>

\* the process dies (killed, power loss) wherever the run is
Crash ==
    /\ ipc \in {"start", "embed", "loop", "save", "dump"}
    /\ ipc' = "crashed"
    /\ UNCHANGED notIndexVars
    /\ UNCHANGED <<corpus, dirExists, batch_size, entry, chunks, texts,
                   all_embeddings, bi, embeddings, encodeCalls, encodeReturns,
                   failedBatch, saveInvoked, diskBefore, disk>>

IndexNext ==
    \/ MainRead \/ DirectCall \/ BatchBegin \/ EncodeBatch \/ EncodeFails
    \/ BatchReturn \/ SaveOpen \/ SaveOpenFails \/ SaveDumpPart
    \/ SaveDumpEnd \/ Crash

SpecIndex == IndexInit /\ [][IndexNext]_vars

----------------------------------------------------------------------------
(* The chunker as a state machine: one call of chunk_text on one input *)

Texts == UNION {[1..n -> Alphabet] : n \in 0..MaxTextLen}

ChunkInit ==
    /\ IndexIdle /\ FilterIdle /\ CallersIdle /\ ExtraIdle
    /\ text \in Texts
    /\ max_length \in 2..MaxMaxLength
    /\ min_length \in 1..(max_length - 1)
    /\ valid_chunks = <<>>
    /\ cpc = "call"

ChunkText ==
    /\ cpc = "call"
    /\ valid_chunks' = chunk_text(text, min_length, max_length)
    /\ cpc' = "returned"
    /\ UNCHANGED <<text, min_length, max_length>>
    /\ UNCHANGED <<indexVars, filterVars, callerVars, extraVars>>

ChunkNext == ChunkText

SpecChunk == ChunkInit /\ [][ChunkNext]_vars

----------------------------------------------------------------------------
(* The pipeline with one caller: each call runs from start to end *)

LoadableSets == UNION {[1..n -> LoadableChunk] : n \in 0..MaxChunks}

FilterInit ==
    /\ ChunkIdle /\ IndexIdle /\ CallersIdle /\ ExtraIdle
    /\ loaded \in LoadableSets
    /\ self_chunks = loaded
    /\ fpc = "idle"
    /\ call = NoCall
    /\ result = Returned(<<>>)

\* a call of get_filtered_chunks
GetFilteredChunks ==
    /\ fpc = "idle"
    /\ \E vector_temas \in TopicSets, eje_activo \in Ejes \cup {NoEje},
          mode \in Modes, max_chunks \in 0..MaxResults :
          LET out == get_filtered_chunks(self_chunks, vector_temas, eje_activo,
                                         mode, max_chunks)
          IN  /\ call' = [vector_temas |-> vector_temas, eje_activo |-> eje_activo,
                          mode |-> mode, max_chunks |-> max_chunks]
              /\ self_chunks' = out.chunks
              /\ result' = out.result
    /\ fpc' = "returned"
    /\ UNCHANGED loaded
    /\ UNCHANGED <<chunkVars, indexVars, callerVars, extraVars>>

\* a call of filter_by_vector_temas itself, with the default threshold
FilterByVectorTemas ==
    /\ fpc = "idle"
    /\ \E vector_temas \in TopicSets :
          LET out == filter_by_vector_temas(self_chunks, vector_temas)
          IN  /\ call' = [vector_temas |-> vector_temas]
              /\ self_chunks' = out.chunks
              /\ result' = Returned(out.refs)
    /\ fpc' = "filtered"
    /\ UNCHANGED loaded
    /\ UNCHANGED <<chunkVars, indexVars, callerVars, extraVars>>

\* the caller is done with the list it got; the manager waits for the next call
DropResult ==
    /\ fpc \in {"returned", "filtered"}
    /\ fpc' = "idle"
    /\ call' = NoCall
    /\ result' = Returned(<<>>)
    /\ UNCHANGED <<self_chunks, loaded>>
    /\ UNCHANGED <<chunkVars, indexVars, callerVars, extraVars>>

FilterNext == GetFilteredChunks \/ FilterByVectorTemas \/ DropResult

SpecFilter == FilterInit /\ [][FilterNext]_vars

----------------------------------------------------------------------------
(* generate_suggestions: the first sentence of each of the first records      *)
(* get_filtered_chunks returns.  Here the text of a record is spelled out.    *)

\* max_chunks=20 (line 82)
SuggestMaxChunks == 20
\* filtered_chunks[:5] (line 89)
TopSuggestions == 5
\* the longest a suggestion is left uncut (lines 95-96)
SuggestionChars == 100

Repeat(c, n) == [k \in 1..n |-> c]

\* the characters of a record's text: t1 has a short first sentence with a
\* space before it, t2 a first sentence one character over the cut, t3 is
\* one sentence of exactly the length of the cut
Content(t) ==
    CASE t = "t1" -> <<" ", "a", ".", "b">>
      [] t = "t2" -> Repeat("a", SuggestionChars + 1) \o <<".", "b">>
      [] t = "t3" -> Repeat("a", SuggestionChars)

\* text.split('.')[0]: the text before its first full stop
FirstSentence(s) ==
    LET stops == {k \in 1..Len(s) : s[k] = "."}
    IN  IF stops = {} THEN s
        ELSE SubSeq(s, 1, (CHOOSE k \in stops : \A q \in stops : k <= q) - 1)

\* lines 91-96: the first sentence trimmed, cut with "..." when too long
Suggestion(s) ==
    LET suggestion == Strip(FirstSentence(s))
    IN  IF Len(suggestion) > SuggestionChars
        THEN SubSeq(suggestion, 1, SuggestionChars) \o <<".", ".", ".">>
        ELSE suggestion

\* the list returned when nothing passed the filters (line 85)
Placeholder ==
    << <<"No se encontraron chunks relevantes para los temas especificados">> >>

Suggested(list) == [raised |-> FALSE, suggestions |-> list]
SuggestKeyError == [raised |-> TRUE, suggestions |-> <<>>]

\* generate_suggestions (lines 79-99): the records afterwards and the list
\* returned, or KeyError, from get_filtered_chunks or from line 97 on a
\* record without eje
generate_suggestions(st, vector_temas, mode, eje_activo) ==
    LET got == get_filtered_chunks(st, vector_temas, eje_activo, mode,
                                   SuggestMaxChunks)
        refs == got.result.refs
        top == SubSeq(refs, 1, Min(TopSuggestions, Len(refs)))
    IN  IF got.result.raised THEN [chunks |-> got.chunks, result |-> SuggestKeyError]
        ELSE IF refs = <<>>
             THEN [chunks |-> got.chunks, result |-> Suggested(Placeholder)]
             ELSE IF \E k \in 1..Len(top) : got.chunks[top[k]].eje = Missing
                  THEN [chunks |-> got.chunks, result |-> SuggestKeyError]
                  ELSE [chunks |-> got.chunks,
                        result |-> Suggested(
                            [k \in 1..Len(top) |->
                                <<got.chunks[top[k]].eje, ": ">>
                                \o Suggestion(Content(got.chunks[top[k]].text))])]

\* the records suggestions are asked over: with either type, with a text of
\* each kind, without eje, without type
SuggestChunks ==
    {[text |-> "t1", eje |-> "U1", type |-> "practice", similarity_score |-> NoScore],
     [text |-> "t2", eje |-> "U2", type |-> "practice", similarity_score |-> NoScore],
     [text |-> "t3", eje |-> "U1", type |-> "theory", similarity_score |-> NoScore],
     [text |-> "t1", eje |-> Missing, type |-> "practice", similarity_score |-> NoScore],
     [text |-> "t2", eje |-> "U1", type |-> Missing, similarity_score |-> NoScore]}

SuggestSets == UNION {[1..n -> SuggestChunks] : n \in 0..MaxSuggestChunks}

SuggestInit ==
    /\ ChunkIdle /\ IndexIdle /\ CallersIdle /\ ExtraIdle
    /\ loaded \in SuggestSets
    /\ self_chunks = loaded
    /\ fpc = "idle"
    /\ call = NoCall
    /\ result = Suggested(<<>>)

\* a call of generate_suggestions
GenerateSuggestions ==
    /\ fpc = "idle"
    /\ \E vector_temas \in {<<>>, <<"Funcion">>}, mode \in Modes,
          eje_activo \in {NoEje, "U1"} :
          LET out == generate_suggestions(self_chunks, vector_temas, mode,
                                          eje_activo)
          IN  /\ call' = [vector_temas |-> vector_temas, eje_activo |-> eje_activo,
                          mode |-> mode, max_chunks |-> SuggestMaxChunks]
              /\ self_chunks' = out.chunks
              /\ result' = out.result
    /\ fpc' = "suggested"
    /\ UNCHANGED loaded
    /\ UNCHANGED <<chunkVars, indexVars, callerVars, extraVars>>

SuggestNext == GenerateSuggestions

SpecSuggest == SuggestInit /\ [][SuggestNext]_vars

----------------------------------------------------------------------------
(* Two callers of get_filtered_chunks on one manager, nothing synchronising   *)
(* them: a caller can be overtaken between any two turns of the loop of       *)
(* filter_by_vector_temas, and between the loop and the sort                  *)

\* what a caller reads from the list it got back: the records, in order, and
\* the similarity_score each record carries
Seen(st, out) ==
    [raised |-> out.raised,
     refs |-> out.refs,
     scores |-> [k \in 1..Len(out.refs) |-> st[out.refs[k]].similarity_score]]

\* the arguments the two callers use: topic sets that are not empty
CallerArgs ==
    [vector_temas : TopicSets \ {<<>>}, eje_activo : Ejes \cup {NoEje},
     mode : Modes, max_chunks : {MaxResults}]

CallersInit ==
    /\ ChunkIdle /\ IndexIdle /\ ExtraIdle
    /\ loaded \in LoadableSets
    /\ self_chunks = loaded
    /\ fpc = "off" /\ call = NoCall /\ result = Returned(<<>>)
    /\ targs \in {a \in [Callers -> CallerArgs] :
                    a[1].vector_temas # a[2].vector_temas}
    /\ tpc = [p \in Callers |-> "ready"]
    /\ tlist = [p \in Callers |-> <<>>]
    /\ tfiltered = [p \in Callers |-> <<>>]
    /\ tidx = [p \in Callers |-> 0]
    /\ tresult = [p \in Callers |-> Seen(<<>>, Returned(<<>>))]

\* lines 60-69 and 23-31: the copy of the list, the eje filter, and the way
\* into filter_by_vector_temas up to its loop
CallerStart(p) ==
    /\ tpc[p] = "ready"
    /\ LET byEje == filter_by_eje(self_chunks, AllRefs(self_chunks),
                                  targs[p].eje_activo)
       IN  IF byEje.raised
           THEN /\ tpc' = [tpc EXCEPT ![p] = "raised"]
                /\ UNCHANGED <<tlist, tidx>>
           ELSE IF targs[p].vector_temas = <<>> \/ self_chunks = <<>>
           THEN /\ tpc' = [tpc EXCEPT ![p] = "mode"]
                /\ tlist' = [tlist EXCEPT ![p] =
                               IF targs[p].vector_temas = <<>> THEN byEje.refs
                               ELSE AllRefs(self_chunks)]
                /\ UNCHANGED tidx
           ELSE /\ tpc' = [tpc EXCEPT ![p] = "loop"]
                /\ tlist' = [tlist EXCEPT ![p] = byEje.refs]
                /\ tidx' = [tidx EXCEPT ![p] = 1]
    /\ UNCHANGED <<self_chunks, loaded, fpc, call, result, targs, tfiltered, tresult>>
    /\ UNCHANGED <<chunkVars, indexVars, extraVars>>

\* one turn of the loop at lines 32-38
CallerScore(p) ==
    /\ tpc[p] = "loop" /\ tidx[p] <= Len(self_chunks)
    /\ self_chunks' = ScoreChunk(self_chunks, targs[p].vector_temas, tidx[p])
    /\ tfiltered' = [tfiltered EXCEPT ![p] =
                       IF cosine_similarity(targs[p].vector_temas,
                                            self_chunks[tidx[p]].text) > Threshold
                       THEN Append(@, tidx[p]) ELSE @]
    /\ tidx' = [tidx EXCEPT ![p] = @ + 1]
    /\ UNCHANGED <<loaded, fpc, call, result, tpc, targs, tlist, tresult>>
    /\ UNCHANGED <<chunkVars, indexVars, extraVars>>

\* lines 40-42: the sort reads the scores the records carry now
CallerSort(p) ==
    /\ tpc[p] = "loop" /\ tidx[p] > Len(self_chunks)
    /\ tlist' = [tlist EXCEPT ![p] = SortByScore(self_chunks, tfiltered[p])]
    /\ tpc' = [tpc EXCEPT ![p] = "mode"]
    /\ UNCHANGED <<self_chunks, loaded, fpc, call, result, targs, tfiltered,
                   tidx, tresult>>
    /\ UNCHANGED <<chunkVars, indexVars, extraVars>>

\* lines 73-77: the mode filter and the cut; the caller reads what it got
CallerFinish(p) ==
    /\ tpc[p] = "mode"
    /\ LET byMode == filter_by_mode(self_chunks, tlist[p], targs[p].mode)
       IN  IF byMode.raised
           THEN /\ tpc' = [tpc EXCEPT ![p] = "raised"]
                /\ UNCHANGED tresult
           ELSE /\ tpc' = [tpc EXCEPT ![p] = "returned"]
                /\ tresult' = [tresult EXCEPT ![p] =
                      Seen(self_chunks,
                           Returned(PrefixSlice(byMode.refs, targs[p].max_chunks)))]
    /\ UNCHANGED <<self_chunks, loaded, fpc, call, result, targs, tlist,
                   tfiltered, tidx>>
    /\ UNCHANGED <<chunkVars, indexVars, extraVars>>

CallersNext ==
    \E p \in Callers :
        CallerStart(p) \/ CallerScore(p) \/ CallerSort(p) \/ CallerFinish(p)

SpecCallers == CallersInit /\ [][CallersNext]_vars

----------------------------------------------------------------------------
(* Type assignment (scripts/enhanced_chunking.py, assign_type).  The regex    *)
(* \bkeyword\b matches a keyword exactly where it is a maximal run of word   *)
(* characters, so a text is the sequence of its maximal runs of word          *)
(* characters.                                                                *)

\* the words a text is made of: keywords as written in the list, keywords in
\* other case, a keyword with a letter after it, and a word that is no keyword
WordTokens == {"ejercicio", "PROBLEMA", "Calcular", "ejercicios", "hola"}

\* str.lower() on a word
Lower(w) ==
    CASE w = "PROBLEMA" -> "problema"
      [] w = "Calcular" -> "calcular"
      [] OTHER -> w

\* exercise_keywords (line 70)
exercise_keywords ==
    <<"ejercicio", "problema", "resolver", "calcular", "implementar", "programar">>

\* len(re.findall(rf'\b{keyword}\b', text_lower))
RECURSIVE CountWord(_, _)
CountWord(keyword, ws) ==
    IF ws = <<>> THEN 0
    ELSE (IF Lower(Head(ws)) = keyword THEN 1 ELSE 0) + CountWord(keyword, Tail(ws))

\* sum(... for keyword in exercise_keywords) (line 73)
RECURSIVE ExerciseCount(_, _)
ExerciseCount(keywords, ws) ==
    IF keywords = <<>> THEN 0
    ELSE CountWord(Head(keywords), ws) + ExerciseCount(Tail(keywords), ws)

\* a type assignment that says 'practice' from five occurrences on
assign_type_from_five(ws) ==
    IF ExerciseCount(exercise_keywords, ws) >= 5 THEN "practice" ELSE "theory"

\* assign_type (lines 68-75)
assign_type(ws) ==
    IF ExerciseCount(exercise_keywords, ws) > 5 THEN "practice" ELSE "theory"

WordTexts == UNION {[1..n -> WordTokens] : n \in 0..MaxWords}

TypeInit ==
    /\ ChunkIdle /\ IndexIdle /\ FilterIdle /\ CallersIdle /\ FileIdle /\ ReadIdle
    /\ words \in WordTexts
    /\ chunk_type = "none"
    /\ apc = "call"

AssignType ==
    /\ apc = "call"
    /\ chunk_type' = assign_type(words)
    /\ apc' = "returned"
    /\ UNCHANGED words
    /\ UNCHANGED <<chunkVars, indexVars, filterVars, callerVars, fileVars, readVars>>

TypeNext == AssignType

SpecType == TypeInit /\ [][TypeNext]_vars

----------------------------------------------------------------------------
(* process_file on one file, with the text of the file and the records it    *)
(* builds spelled out.  A path is a stem and a suffix, both character         *)
(* sequences; the file behind it can be read, is missing, or cannot be        *)
(* decoded.                                                                   *)

DotTxt == <<".", "t", "x", "t">>
DotPdf == <<".", "p", "d", "f">>

Stems == {<<"d", "o", "c">>}
Suffixes == {DotTxt, <<".", "T", "X", "T">>, DotPdf, <<".", "m", "d">>}
FileStates == {"readable", "missing", "undecodable"}
FilePaths == [stem : Stems, suffix : Suffixes, state : FileStates]

\* str.lower() on the characters of a suffix
LowerChar(c) ==
    CASE c = "T" -> "t"
      [] c = "X" -> "x"
      [] OTHER -> c

LowerSeq(s) == [k \in 1..Len(s) |-> LowerChar(s[k])]

\* Path.name
PathName(fp) == fp.stem \o fp.suffix

\* str(i) inside the f-string of chunk_id
DecimalDigit(d) ==
    CASE d = 0 -> "0" [] d = 1 -> "1" [] d = 2 -> "2" [] d = 3 -> "3"
      [] d = 4 -> "4" [] d = 5 -> "5" [] d = 6 -> "6" [] d = 7 -> "7"
      [] d = 8 -> "8" [] d = 9 -> "9"

RECURSIVE ToDecimal(_)
ToDecimal(i) ==
    IF i < 10 THEN <<DecimalDigit(i)>>
    ELSE ToDecimal(i \div 10) \o <<DecimalDigit(i % 10)>>

\* chunk records numbered from one
ChunkObjectsFromOne(fp, file_ext, cs) ==
    [k \in 1..Len(cs) |->
        [text |-> cs[k], source |-> PathName(fp),
         chunk_id |-> fp.stem \o <<"_">> \o ToDecimal(k),
         length |-> Len(cs[k]), file_type |-> Tail(file_ext),
         chunk_index |-> k]]

\* the loop at lines 194-204: enumerate(chunks) counts from 0
ChunkObjects(fp, file_ext, cs) ==
    [k \in 1..Len(cs) |->
        [text |-> cs[k], source |-> PathName(fp),
         chunk_id |-> fp.stem \o <<"_">> \o ToDecimal(k - 1),
         length |-> Len(cs[k]), file_type |-> Tail(file_ext),
         chunk_index |-> k - 1]]

\* return file_path.name, [], 0 (lines 170, 175, 187, 210)
NoChunks(fp) ==
    [filename |-> PathName(fp), chunk_objects |-> <<>>, processing_time |-> 0]

\* extract_text_from_pdf (lines 107-126): the stripped text of the pages, or
\* the empty string when there is no PDF library or the extraction raised
extract_text_from_pdf(fp, content, available) ==
    IF ~available \/ fp.state # "readable" THEN <<>> ELSE Strip(content)

\* process_file (lines 155-210) on a path whose file holds content; a run
\* that gets to line 189 has taken some time, one tick here
process_file_on(fp, content, minL, maxL, available) ==
    LET file_ext == LowerSeq(fp.suffix)
        built(cs) == [filename |-> PathName(fp),
                      chunk_objects |-> ChunkObjects(fp, file_ext, cs),
                      processing_time |-> 1]
    IN  IF file_ext = DotPdf
        THEN IF ~available THEN NoChunks(fp)
             ELSE IF extract_text_from_pdf(fp, content, available) = <<>>
                  THEN NoChunks(fp)
                  ELSE built(chunk_text(extract_text_from_pdf(fp, content, available),
                                        minL, maxL))
        ELSE IF file_ext = DotTxt
             THEN IF fp.state # "readable" THEN NoChunks(fp)
                  ELSE built(chunk_text(content, minL, maxL))
             ELSE NoChunks(fp)

\* whether process_file gets to read text from the file
YieldsText(fp, available) ==
    /\ fp.state = "readable"
    /\ \/ LowerSeq(fp.suffix) = DotTxt
       \/ LowerSeq(fp.suffix) = DotPdf /\ available

ProcessInit ==
    /\ IndexIdle /\ FilterIdle /\ CallersIdle /\ TypeIdle /\ ReadIdle
    /\ file_path \in FilePaths
    /\ pdf_available \in (IF LowerSeq(file_path.suffix) = DotPdf
                          THEN BOOLEAN ELSE {TRUE})
    /\ text \in (IF YieldsText(file_path, pdf_available) THEN Texts ELSE {<<>>})
    /\ max_length \in 2..MaxMaxLength
    /\ min_length \in 1..Min(2, max_length - 1)
    /\ valid_chunks = <<>> /\ cpc = "idle"
    /\ outcome = NoOutcome
    /\ ppc = "call"

ProcessFile ==
    /\ ppc = "call"
    /\ outcome' = process_file_on(file_path, text, min_length, max_length,
                                  pdf_available)
    /\ ppc' = "returned"
    /\ UNCHANGED <<file_path, pdf_available>>
    /\ UNCHANGED <<chunkVars, indexVars, filterVars, callerVars, typeVars, readVars>>

ProcessNext == ProcessFile

SpecProcess == ProcessInit /\ [][ProcessNext]_vars

----------------------------------------------------------------------------
(* read_content_files, file by file: the loop of the sequential branch, and   *)
(* the pool of the parallel branch, whose workers take the files in order     *)
(* and finish in any order.  The content directory exists.                    *)

\* a process_file that lets the failure on a file escape
ProcessOutcomeRaising(f, file) ==
    [raised |-> ~file.ok, filename |-> FileName(f),
     chunks |-> process_file(f, file),
     processing_time |-> IF file.ok THEN 1 ELSE 0]

\* what a call of process_file on file number f comes to (lines 155-210):
\* the except clause at lines 208-210 turns every failure into a return, so
\* nothing is raised; a file that goes through has taken some time, a tick
ProcessOutcome(f, file) ==
    [raised |-> FALSE, filename |-> FileName(f),
     chunks |-> process_file(f, file),
     processing_time |-> IF file.ok THEN 1 ELSE 0]

\* results in the order the workers finished
MergeOrderCompletion(fin, n) == fin

\* pool.map (line 277): the results come in the order of file_infos
MergeOrder(fin, n) == [k \in 1..n |-> k]

\* the loop at lines 280-282 over the results, taken in the given order
RECURSIVE ExtendAll(_, _)
ExtendAll(res, order) ==
    IF order = <<>> THEN <<>>
    ELSE res[Head(order)].chunks \o ExtendAll(res, Tail(order))

\* results with the outcome of file t noted
Noted(res, t, out) ==
    [k \in DOMAIN res \cup {t} |-> IF k = t THEN out ELSE res[k]]

ReadInit ==
    /\ ChunkIdle /\ IndexIdle /\ FilterIdle /\ CallersIdle /\ TypeIdle /\ FileIdle
    /\ txt_files \in Corpora
    /\ pdf_files \in Corpora
    /\ Len(txt_files) + Len(pdf_files) <= MaxFiles
    /\ parallel \in BOOLEAN
    /\ cpu_count \in 1..MaxCpu
    /\ all_files = <<>> /\ num_processes = 0 /\ next_file = 1
    /\ running = {} /\ finished = <<>> /\ results = <<>>
    /\ all_chunks = <<>>
    /\ rpc = "start"

\* lines 250-272: list the files, txt first; none: return []; else choose
\* the branch and, for the pool, its size
Discover ==
    /\ rpc = "start"
    /\ all_files' = txt_files \o pdf_files
    /\ IF all_files' = <<>>
       THEN rpc' = "done" /\ UNCHANGED num_processes
       ELSE IF parallel /\ Len(all_files') > 1
            THEN /\ num_processes' = Min(cpu_count, Len(all_files'))
                 /\ rpc' = "pool"
            ELSE rpc' = "loop" /\ UNCHANGED num_processes
    /\ UNCHANGED <<txt_files, pdf_files, parallel, cpu_count, next_file, running,
                   finished, results, all_chunks>>
    /\ UNCHANGED <<chunkVars, indexVars, filterVars, callerVars, typeVars, fileVars>>

\* one turn of the sequential loop (lines 288-291), the return at line 296
\* after the last
SeqStep ==
    /\ rpc = "loop"
    /\ LET out == ProcessOutcome(next_file, all_files[next_file])
       IN  IF out.raised
           THEN rpc' = "failed" /\ UNCHANGED <<results, all_chunks, next_file>>
           ELSE /\ results' = Noted(results, next_file, out)
                /\ all_chunks' = all_chunks \o out.chunks
                /\ next_file' = next_file + 1
                /\ rpc' = IF next_file = Len(all_files) THEN "done" ELSE "loop"
    /\ UNCHANGED <<txt_files, pdf_files, all_files, parallel, cpu_count,
                   num_processes, running, finished>>
    /\ UNCHANGED <<chunkVars, indexVars, filterVars, callerVars, typeVars, fileVars>>

\* a worker of the pool that is free takes the next file (line 277)
PoolDispatch ==
    /\ rpc = "pool"
    /\ next_file <= Len(all_files)
    /\ Cardinality(running) < num_processes
    /\ running' = running \cup {next_file}
    /\ next_file' = next_file + 1
    /\ UNCHANGED <<txt_files, pdf_files, all_files, parallel, cpu_count,
                   num_processes, finished, results, all_chunks, rpc>>
    /\ UNCHANGED <<chunkVars, indexVars, filterVars, callerVars, typeVars, fileVars>>

\* a worker finishes its file, whichever worker it is
PoolFinish ==
    /\ rpc = "pool"
    /\ \E t \in running :
          /\ results' = Noted(results, t, ProcessOutcome(t, all_files[t]))
          /\ running' = running \ {t}
          /\ finished' = Append(finished, t)
    /\ UNCHANGED <<txt_files, pdf_files, all_files, parallel, cpu_count,
                   num_processes, next_file, all_chunks, rpc>>
    /\ UNCHANGED <<chunkVars, indexVars, filterVars, callerVars, typeVars, fileVars>>

\* pool.map returns once every file is done (line 277), raising what a
\* worker raised; the results are merged (lines 280-282) and returned
PoolCollect ==
    /\ rpc = "pool"
    /\ Len(finished) = Len(all_files)
    /\ IF \E t \in DOMAIN results : results[t].raised
       THEN rpc' = "failed" /\ UNCHANGED all_chunks
       ELSE /\ all_chunks' = ExtendAll(results, MergeOrder(finished, Len(all_files)))
            /\ rpc' = "done"
    /\ UNCHANGED <<txt_files, pdf_files, all_files, parallel, cpu_count,
                   num_processes, next_file, running, finished, results>>
    /\ UNCHANGED <<chunkVars, indexVars, filterVars, callerVars, typeVars, fileVars>>

ReadNext == Discover \/ SeqStep \/ PoolDispatch \/ PoolFinish \/ PoolCollect

SpecRead == ReadInit /\ [][ReadNext]_vars

----------------------------------------------------------------------------
(* Properties of the chunker, stated for the behaviours of SpecChunk *)

HasPunct(s) == \E k \in 1..Len(s) : IsPunct(s[k])

\* the paragraphs of the input, trimmed and with whitespace runs collapsed
NormalizedParagraphs ==
    LET ps == SplitParagraphs(Strip(text))
    IN  {CollapseWhitespace(Strip(ps[k])) : k \in 1..Len(ps)}

\* C5: every chunk chunk_text returns is at most max_length long, unless it is
\* a whole paragraph longer than max_length with no sentence punctuation in it
C5_UpperLengthBound ==
    cpc = "returned" =>
        \A k \in 1..Len(valid_chunks) :
            \/ Len(valid_chunks[k]) <= max_length
            \/ /\ valid_chunks[k] \in NormalizedParagraphs
               /\ ~HasPunct(valid_chunks[k])

\* C6: no chunk chunk_text returns is shorter than min_length, the length
\* being that of the chunk as returned
C6_LowerLengthBound ==
    cpc = "returned" =>
        \A k \in 1..Len(valid_chunks) : Len(valid_chunks[k]) >= min_length

\* the lines of s: the pieces between its newlines
RECURSIVE LinesFrom(_, _)
LinesFrom(s, cur) ==
    IF s = <<>> THEN <<cur>>
    ELSE IF Head(s) = NL THEN <<cur>> \o LinesFrom(Tail(s), <<>>)
         ELSE LinesFrom(Tail(s), Append(cur, Head(s)))

BlankLine(l) == \A k \in 1..Len(l) : IsSpace(l[k])

\* the paragraphs of a text read line by line: the maximal runs of lines that
\* are not blank, each run joined by single newlines
RECURSIVE ParagraphsOfLines(_, _)
ParagraphsOfLines(ls, cur) ==
    IF ls = <<>> THEN (IF cur = <<>> THEN <<>> ELSE <<cur>>)
    ELSE IF BlankLine(Head(ls))
         THEN (IF cur = <<>> THEN <<>> ELSE <<cur>>)
              \o ParagraphsOfLines(Tail(ls), <<>>)
         ELSE ParagraphsOfLines(Tail(ls),
                                IF cur = <<>> THEN Head(ls)
                                ELSE cur \o <<NL>> \o Head(ls))

BlankLineParagraphs(s) == ParagraphsOfLines(LinesFrom(s, <<>>), <<>>)

\* C16: when every blank-line-separated paragraph of the text is, trimmed, at
\* least min_length long and, trimmed and collapsed, at most max_length long,
\* chunk_text returns one chunk per paragraph, in order, each the paragraph
\* trimmed with its whitespace runs collapsed to one space and so without two
\* spaces in a row; a text that is empty or all whitespace gives no chunk
C16_OneChunkPerParagraph ==
    cpc = "returned" =>
        LET ps == BlankLineParagraphs(text)
        IN  /\ ps = <<>> => valid_chunks = <<>>
            /\ (\A k \in 1..Len(ps) :
                    /\ Len(Strip(ps[k])) >= min_length
                    /\ Len(CollapseWhitespace(Strip(ps[k]))) <= max_length) =>
                   /\ valid_chunks =
                          [k \in 1..Len(ps) |-> CollapseWhitespace(Strip(ps[k]))]
                   /\ \A k \in 1..Len(valid_chunks) :
                          \A q \in 1..(Len(valid_chunks[k]) - 1) :
                             ~(valid_chunks[k][q] = " " /\ valid_chunks[k][q + 1] = " ")

\* chunk_text returned a paragraph whose newline and space it had collapsed
\* to one space
C16_Witness ==
    /\ cpc = "returned"
    /\ text = <<"a", NL, " ", "a">>
    /\ min_length = 3
    /\ valid_chunks = << <<"a", " ", "a">> >>

----------------------------------------------------------------------------
(* Properties of the indexing run, stated for the behaviours of SpecIndex *)

\* C2: the output path always holds the complete prior snapshot (or, as before
\* the run, no file) or a complete new one
C2_AtomicPersistence ==
    disk = diskBefore \/ disk.state = "complete"

\* C7: once model.encode has raised on a batch, that call is the last one the
\* provider got, the run has ended in the error, save_index was not entered
\* and the output path is as it was before the run
C7_ProviderFailureAborts ==
    failedBatch # 0 =>
        /\ ipc = "failed"
        /\ Len(encodeCalls) = failedBatch
        /\ saveInvoked = FALSE
        /\ disk = diskBefore

\* the provider fails on the second batch of a run of main that had a prior
\* snapshot and more batches to go
C7_Witness ==
    /\ failedBatch = 2 /\ ipc = "failed" /\ entry = "main"
    /\ diskBefore = Complete(PriorSnapshot)
    /\ bi + batch_size < Len(texts)

CeilDiv(n, b) == IF n % b = 0 THEN n \div b ELSE (n \div b) + 1

RECURSIVE SumChunks(_, _)
SumChunks(files, f) ==
    IF f > Len(files) THEN 0
    ELSE Len(process_file(f, files[f])) + SumChunks(files, f + 1)

RECURSIVE SumCounts(_, _)
SumCounts(counts, keys) ==
    IF keys = {} THEN 0
    ELSE LET x == CHOOSE y \in keys : TRUE
         IN  counts[x] + SumCounts(counts, keys \ {x})

\* C9: a snapshot the run wrote holds as many texts as embeddings as chunk
\* records as total_chunks says, which is the sum of the chunks the files
\* yielded and the sum of the per-source counts
C9_SnapshotAlignment ==
    disk.state = "complete" /\ disk # diskBefore =>
        LET d == disk.data
        IN  /\ Len(d.texts) = Len(d.embeddings)
            /\ Len(d.texts) = Len(d.chunks_metadata)
            /\ Len(d.texts) = d.total_chunks
            /\ d.total_chunks = SumChunks(corpus, 1)
            /\ SumCounts(d.sources, DOMAIN d.sources) = d.total_chunks

\* a snapshot of two files, one of them with two chunks or more, was written
C9_Witness ==
    /\ disk.state = "complete" /\ disk # diskBefore
    /\ Cardinality(DOMAIN disk.data.sources) = 2
    /\ disk.data.total_chunks >= 3

----------------------------------------------------------------------------
(* Properties of the pipeline with one caller, for the behaviours of SpecFilter *)

\* C1: with an eje requested, every record get_filtered_chunks returns has
\* that eje, whatever the topic set
C1_AxisFilterComposes ==
    fpc = "returned" /\ call.eje_activo # NoEje /\ ~result.raised =>
        \A k \in 1..Len(result.refs) :
            self_chunks[result.refs[k]].eje = call.eje_activo

\* C3: the records the manager holds are, field for field, the records loaded
C3_FilteringPreservesChunks ==
    self_chunks = loaded

\* C10 as stated: with no topics and no eje the call returns the first
\* max_chunks records of the loaded list
C10_EmptyTopicsReturnPrefix ==
    fpc = "returned" /\ call.vector_temas = <<>> /\ call.eje_activo = NoEje
        /\ ~result.raised =>
        result.refs = [k \in 1..Min(call.max_chunks, Len(loaded)) |-> k]

\* C10, amended: with no topics and no eje the call returns, in the order of
\* the loaded list, the first max_chunks of the records whose type is the
\* mode asked for, when every record has a type; it raises KeyError when one
\* has none
C10_EmptyTopicsReturnModePrefix ==
    fpc = "returned" /\ call.vector_temas = <<>> /\ call.eje_activo = NoEje =>
        LET ofMode == {k \in 1..Len(loaded) : loaded[k].type = call.mode}
            refs == result.refs
            got == {refs[k] : k \in 1..Len(refs)}
        IN  IF \E k \in 1..Len(loaded) : loaded[k].type = Missing
            THEN result.raised
            ELSE /\ ~result.raised
                 /\ Len(refs) = Min(call.max_chunks, Cardinality(ofMode))
                 /\ \A k \in 1..(Len(refs) - 1) : refs[k] < refs[k + 1]
                 /\ got \subseteq ofMode
                 /\ \A x \in ofMode \ got : \A y \in got : y < x

\* a call with no topics and no eje left out a record of the other mode and
\* returned one of the mode asked for
C10_Witness ==
    /\ fpc = "returned" /\ call.vector_temas = <<>> /\ call.eje_activo = NoEje
    /\ ~result.raised
    /\ result.refs = <<2>>
    /\ loaded[1].type # call.mode

\* C11: for a topic set that is not empty, filter_by_vector_temas returns
\* exactly the records whose similarity to the topics is strictly above the
\* threshold, each once and carrying that similarity as its score, ordered by
\* score descending, records of equal score in the order of the loaded list
C11_SemanticRelevanceOrdering ==
    fpc = "filtered" /\ call.vector_temas # <<>> =>
        LET refs == result.refs
            sim(k) == cosine_similarity(call.vector_temas, loaded[k].text)
            above == {k \in 1..Len(loaded) : sim(k) > Threshold}
        IN  /\ ~result.raised
            /\ {refs[i] : i \in 1..Len(refs)} = above
            /\ Len(refs) = Cardinality(above)
            /\ \A i \in 1..Len(refs) :
                   self_chunks[refs[i]].similarity_score = Score(sim(refs[i]))
            /\ \A i, j \in 1..Len(refs) :
                   i < j => \/ sim(refs[i]) > sim(refs[j])
                            \/ sim(refs[i]) = sim(refs[j]) /\ refs[i] < refs[j]

\* filter_by_vector_temas returned both records, the second of the loaded
\* list first because its score is the higher
C11_Witness ==
    /\ fpc = "filtered" /\ call.vector_temas # <<>>
    /\ result.refs = <<2, 1>>
    /\ self_chunks[2].similarity_score[1] > self_chunks[1].similarity_score[1]

\* C13 as stated: get_filtered_chunks always returns a list, and a record
\* without a type, or without an eje when an eje is asked for, is left out
\* of it
C13_FilteringIsTotal ==
    fpc = "returned" =>
        /\ ~result.raised
        /\ \A k \in 1..Len(result.refs) :
               /\ loaded[result.refs[k]].type # Missing
               /\ call.eje_activo # NoEje =>
                      loaded[result.refs[k]].eje # Missing

\* C14: for every eje, when the records filter_by_eje keeps all carry a type
\* assign_type can produce, filter_by_mode with 'theory' and filter_by_mode
\* with 'practice' share no record and together hold each record of the
\* eje-filtered list exactly once
C14_ModePartition ==
    \A eje_activo \in Ejes \cup {NoEje} :
        LET byEje == filter_by_eje(self_chunks, AllRefs(self_chunks), eje_activo)
            theory == filter_by_mode(self_chunks, byEje.refs, "theory")
            practice == filter_by_mode(self_chunks, byEje.refs, "practice")
            Range(refs) == {refs[k] : k \in 1..Len(refs)}
        IN  (/\ ~byEje.raised
             /\ \A k \in 1..Len(byEje.refs) :
                    self_chunks[byEje.refs[k]].type \in Modes) =>
                /\ ~theory.raised /\ ~practice.raised
                /\ Range(theory.refs) \cap Range(practice.refs) = {}
                /\ Range(theory.refs) \cup Range(practice.refs) = Range(byEje.refs)
                /\ Len(theory.refs) + Len(practice.refs) = Len(byEje.refs)

\* a call with an eje that both loaded records carry returned the second
\* record alone, the first being of the other mode
C14_Witness ==
    /\ fpc = "returned" /\ call.vector_temas = <<>> /\ ~result.raised
    /\ Len(loaded) = 2
    /\ call.eje_activo # NoEje
    /\ \A k \in 1..2 : loaded[k].eje = call.eje_activo /\ loaded[k].type \in Modes
    /\ loaded[1].type # loaded[2].type
    /\ call.max_chunks = 2
    /\ result.refs = <<2>>

----------------------------------------------------------------------------
(* Property of process_file, stated for the behaviours of SpecProcess *)

\* C15: the records process_file returns for a file carry chunk_index 0, 1,
\* ... in the order returned, chunk_id the stem of the file, an underscore
\* and the chunk_index in decimal, no two records the same chunk_id, source
\* the name of the file, and length the number of characters of their text
C15_ChunkIdentityPerSource ==
    ppc = "returned" =>
        LET objs == outcome.chunk_objects
        IN  /\ outcome.filename = file_path.stem \o file_path.suffix
            /\ \A k \in 1..Len(objs) :
                   /\ objs[k].chunk_index = k - 1
                   /\ objs[k].chunk_id =
                          file_path.stem \o <<"_">> \o ToDecimal(objs[k].chunk_index)
                   /\ objs[k].source = outcome.filename
                   /\ objs[k].length = Len(objs[k].text)
            /\ \A j, k \in 1..Len(objs) :
                   j # k => objs[j].chunk_id # objs[k].chunk_id

\* a file gave two chunks, of different lengths
C15_Witness ==
    /\ ppc = "returned"
    /\ Len(outcome.chunk_objects) = 2
    /\ outcome.chunk_objects[1].length # outcome.chunk_objects[2].length
    /\ outcome.chunk_objects[2].chunk_id = <<"d", "o", "c", "_", "1">>

----------------------------------------------------------------------------
(* Properties of read_content_files, stated for the behaviours of SpecRead *)

\* how many chunks the files before file f that can be processed have
RECURSIVE ChunksBefore(_)
ChunksBefore(f) ==
    IF f <= 1 THEN 0
    ELSE ChunksBefore(f - 1)
         + (IF all_files[f - 1].ok THEN all_files[f - 1].n ELSE 0)

\* C12: process_file on a file that cannot be read, decoded or handled
\* returns the name of the file, no chunks and time 0, and raises nothing;
\* read_content_files does not fail, has processed every file when it
\* returns, and returns the chunks of the files that went through, file
\* after file
C12_PerFileFailuresIsolated ==
    /\ rpc # "failed"
    /\ \A f \in DOMAIN results :
           ~all_files[f].ok =>
               results[f] = [raised |-> FALSE, filename |-> FileName(f),
                             chunks |-> <<>>, processing_time |-> 0]
    /\ rpc = "done" =>
           /\ DOMAIN results = 1..Len(all_files)
           /\ Len(all_chunks) = ChunksBefore(Len(all_files) + 1)
           /\ \A f \in 1..Len(all_files) :
                  all_files[f].ok =>
                      \A i \in 1..all_files[f].n :
                         /\ all_chunks[ChunksBefore(f) + i].source = FileName(f)
                         /\ all_chunks[ChunksBefore(f) + i].chunk_index = i - 1

\* the loop returned the two chunks of the second file, the first file
\* having failed
C12_Witness ==
    /\ rpc = "done" /\ ~parallel
    /\ Len(all_files) = 2
    /\ ~all_files[1].ok
    /\ all_files[2].ok /\ all_files[2].n = 2
    /\ results[1].chunks = <<>> /\ results[1].processing_time = 0
    /\ Len(all_chunks) = 2

\* C19: read_content_files returns, with parallel set, the chunk records the
\* sequential loop returns for the same files, in the same order: grouped by
\* file in the order listed, txt files before pdf files, in whatever order
\* the workers finish; there is a pool only with parallel set and more than
\* one file, it has min(cpu_count, number of files) workers and never more
\* files under way than that
C19_ParallelSequentialAgree ==
    /\ Cardinality(running) <= num_processes
    /\ num_processes > 0 =>
           /\ parallel /\ Len(all_files) > 1
           /\ num_processes = Min(cpu_count, Len(all_files))
    /\ rpc = "done" =>
           /\ all_files = txt_files \o pdf_files
           /\ all_chunks = ReadFrom(all_files, 1)
           /\ \A i, j \in 1..Len(all_chunks) :
                  i < j => all_chunks[i].source[2] <= all_chunks[j].source[2]
           /\ parallel /\ Len(all_files) > 1 =>
                  num_processes > 0 /\ Len(finished) = Len(all_files)
           /\ ~(parallel /\ Len(all_files) > 1) => finished = <<>>

\* the pool's second file was finished before its first, and the call
\* returned the chunks of the first file before those of the second
C19_Witness ==
    /\ rpc = "done" /\ parallel
    /\ finished = <<2, 1>>
    /\ Len(txt_files) = 1 /\ Len(pdf_files) = 1
    /\ all_files[1].ok /\ all_files[1].n = 1
    /\ all_files[2].ok /\ all_files[2].n = 2
    /\ Len(all_chunks) = 3
    /\ all_chunks[1].source = FileName(1)

----------------------------------------------------------------------------
(* Property of the type assignment, stated for the behaviours of SpecType *)

\* the positions of the text where a keyword stands as a whole word, in any case
KeywordPositions ==
    {k \in 1..Len(words) :
        \E q \in 1..Len(exercise_keywords) : Lower(words[k]) = exercise_keywords[q]}

\* C18: assign_type returns 'practice' when the keywords occur, as whole
\* words and in any case, more than five times in all, 'theory' when they
\* occur five times or fewer, and nothing else
C18_PracticeThreshold ==
    apc = "returned" =>
        /\ chunk_type \in {"practice", "theory"}
        /\ chunk_type = "practice" <=> Cardinality(KeywordPositions) > 5

\* six whole-word occurrences, one of them in capitals and one capitalised:
\* 'practice'
C18_Witness ==
    /\ apc = "returned"
    /\ chunk_type = "practice"
    /\ Cardinality(KeywordPositions) = 6
    /\ \E k \in 1..Len(words) : words[k] = "PROBLEMA"
    /\ \E k \in 1..Len(words) : words[k] = "Calcular"

----------------------------------------------------------------------------
(* Property of generate_suggestions, stated for the behaviours of SpecSuggest *)

\* the records that pass the filters of the call, in order: those of the
\* mode asked for, of the eje asked for if one is, and, with topics, of a
\* similarity above the threshold, by score descending
PassingFilters ==
    LET keep == {k \in 1..Len(loaded) :
                    /\ loaded[k].type = call.mode
                    /\ call.eje_activo # NoEje /\ call.vector_temas = <<>> =>
                           loaded[k].eje = call.eje_activo
                    /\ call.vector_temas # <<>> =>
                           cosine_similarity(call.vector_temas, loaded[k].text)
                               > Threshold}
        scored == [k \in 1..Len(loaded) |->
                     [similarity_score |->
                         Score(cosine_similarity(call.vector_temas, loaded[k].text))]]
        inOrder == SelectRefs(AllRefs(loaded), keep)
    IN  IF call.vector_temas = <<>> THEN inOrder ELSE SortByScore(scored, inOrder)

\* C17 as stated: generate_suggestions always returns a list that is not
\* empty: the placeholder alone when no record passes the filters, else one
\* suggestion for each of the first five records that pass, in their order,
\* made of the eje of the record, ': ' and the trimmed first sentence of its
\* text, cut to 100 characters and followed by '...' when it is longer
C17_SuggestionShape ==
    fpc = "suggested" =>
        LET passing == PassingFilters
            out == result.suggestions
        IN  /\ ~result.raised
            /\ Len(out) >= 1
            /\ passing = <<>> => out = Placeholder
            /\ passing # <<>> =>
                   /\ Len(out) = Min(5, Len(passing))
                   /\ \A k \in 1..Len(out) :
                          LET body == SubSeq(out[k], 3, Len(out[k]))
                              first == Strip(FirstSentence(Content(loaded[passing[k]].text)))
                          IN  /\ out[k][1] = loaded[passing[k]].eje
                              /\ out[k][2] = ": "
                              /\ IF Len(first) > 100
                                 THEN body = SubSeq(first, 1, 100) \o <<".", ".", ".">>
                                 ELSE body = first

----------------------------------------------------------------------------
(* Property of two callers, stated for the behaviours of SpecCallers *)

\* what caller p gets when it runs alone on the loaded records
Alone(p) ==
    LET out == get_filtered_chunks(loaded, targs[p].vector_temas,
                                   targs[p].eje_activo, targs[p].mode,
                                   targs[p].max_chunks)
    IN  Seen(out.chunks, out.result)

\* C4: a caller that has returned got the records, the order and the scores
\* it would have got running alone
C4_ConcurrentFilteringSafe ==
    \A p \in Callers : tpc[p] = "returned" => tresult[p] = Alone(p)

====
